---- MODULE Spec2Model ----
(***************************************************************************)
(* Model of the OrderLine entity of packages/core                          *)
(* (src/entity/order-line/order-line.entity.ts): the stored pricing fields *)
(* of one order line, the calculated getters that project prices from      *)
(* them, and the two mutators addAdjustment / clearAdjustments.            *)
(*                                                                         *)
(* JavaScript numbers are modelled in two ways.  The figures that are      *)
(* whole by construction (prices in minor units, the adjustment totals     *)
(* after Math.round and what is derived from them) are extended rationals  *)
(* [n, d]:                                                                 *)
(*   d > 0        the finite value n/d in lowest terms                     *)
(*   d = 0, n = 1   +Infinity        d = 0, n = -1   -Infinity             *)
(*   d = 0, n = 0   NaN                                                    *)
(* so that a division by zero yields what the JavaScript build yields:     *)
(* x / 0 is +Infinity or -Infinity by the sign of x, 0 / 0 is NaN.         *)
(* The figures that carry the rounding error of a double (the shares       *)
(* summed by getAdjustmentsTotal, the amounts of the discounts getter and  *)
(* the quotients and products inside the tax helpers) are IEEE 754         *)
(* doubles [kind, neg, m], computed with round-to-nearest-even on          *)
(* fixed-point magnitudes of several limbs.  Exact arithmetic stands in    *)
(* for the doubles only where it is shown to round to the same integer.    *)
(***************************************************************************)
EXTENDS Integers, Sequences, FiniteSets, TLC

(***************************************************************************)
(* Bounds of the model.                                                    *)
(***************************************************************************)
MaxQuantity == 2
MaxAdjustments == 3

(***************************************************************************)
(* Number arithmetic.                                                      *)
(***************************************************************************)
Abs(i) == IF i < 0 THEN -i ELSE i

Sign(i) == IF i < 0 THEN -1 ELSE IF i > 0 THEN 1 ELSE 0

RECURSIVE GCD(_, _)
GCD(a, b) == IF b = 0 THEN a ELSE GCD(b, a % b)

Norm(n, d) ==
    IF d = 0
    THEN [n |-> Sign(n), d |-> 0]
    ELSE LET g == GCD(Abs(n), Abs(d))
             s == Sign(d)
         IN  [n |-> (s * n) \div g, d |-> (s * d) \div g]

Num(i) == [n |-> i, d |-> 1]

NaN == [n |-> 0, d |-> 0]

IsFinite(x) == x.d > 0

IsInteger(x) == x.d = 1

Neg(x) == [n |-> -(x.n), d |-> x.d]

Add(x, y) ==
    IF x.d = 0 /\ y.d = 0
    THEN (IF x.n = y.n THEN x ELSE NaN)
    ELSE IF x.d = 0 THEN x
    ELSE IF y.d = 0 THEN y
    ELSE Norm(x.n * y.d + y.n * x.d, x.d * y.d)

Sub(x, y) == Add(x, Neg(y))

Mul(x, y) == Norm(x.n * y.n, x.d * y.d)

\* x / y; the divisors met here are never -0, so x / 0 has the sign of x
Div(x, y) ==
    IF y.n = 0 /\ y.d > 0
    THEN [n |-> Sign(x.n), d |-> 0]
    ELSE Mul(x, Norm(y.d * Sign(y.n), Abs(y.n)))

\* Math.round: the nearest integer, a tie going towards +Infinity;
\* NaN and the infinities are returned unchanged.
Round(x) ==
    IF x.d = 0 THEN x ELSE Num((2 * x.n + x.d) \div (2 * x.d))

Max(a, b) == IF a > b THEN a ELSE b

(***************************************************************************)
(* IEEE 754 doubles, for the figures whose rounding error shows.  A finite *)
(* double is a sign and a magnitude m, held as LimbCount limbs of LimbBits *)
(* bits, most significant first, in units of 2^-(FracLimbs * LimbBits).    *)
(* Every double met here (amounts and prices below 2^30 in magnitude,      *)
(* quantities and divisors below 2^15, whole tax rates) is such a number.  *)
(***************************************************************************)
SignificandBits == 53

LimbBits == 15

IntLimbs == 2

FracLimbs == 5

LimbBase == 2 ^ LimbBits

LimbCount == IntLimbs + FracLimbs

Zeros(n) == [i \in 1 .. n |-> 0]

ZeroMag == Zeros(LimbCount)

\* the limb holding bit k (bit 0 is the least significant)
LimbOfBit(m, k) == m[Len(m) - (k \div LimbBits)]

Bit(m, k) == (LimbOfBit(m, k) \div (2 ^ (k % LimbBits))) % 2

AnyBitBelow(m, k) ==
    \/ LimbOfBit(m, k) % (2 ^ (k % LimbBits)) # 0
    \/ \E i \in 1 .. Len(m) : (Len(m) - i) < (k \div LimbBits) /\ m[i] # 0

ClearBelow(m, k) ==
    LET i == Len(m) - (k \div LimbBits)
    IN  SubSeq(m, 1, i - 1)
            \o << m[i] - (m[i] % (2 ^ (k % LimbBits))) >>
            \o Zeros(Len(m) - i)

\* 2^k as a magnitude of n limbs
PowerOfTwo(k, n) ==
    Zeros(n - 1 - (k \div LimbBits)) \o << 2 ^ (k % LimbBits) >> \o Zeros(k \div LimbBits)

RECURSIVE BitLength(_)
BitLength(n) == IF n = 0 THEN 0 ELSE 1 + BitLength(n \div 2)

\* index of the first limb that is not zero
LeadingLimb(m) == CHOOSE i \in 1 .. Len(m) : m[i] # 0 /\ \A j \in 1 .. (i - 1) : m[j] = 0

\* index of the highest set bit of a non-zero magnitude
TopBit(m) ==
    LET i == LeadingLimb(m)
    IN  (Len(m) - i) * LimbBits + BitLength(m[i]) - 1

\* limbs 1 .. i of x + y + carry, the carry entering at limb i
RECURSIVE AddLimbs(_, _, _, _)
AddLimbs(x, y, i, carry) ==
    IF i = 0 THEN << >>
    ELSE Append(AddLimbs(x, y, i - 1, (x[i] + y[i] + carry) \div LimbBase),
                (x[i] + y[i] + carry) % LimbBase)

AddMag(x, y) == AddLimbs(x, y, Len(x), 0)

\* limbs 1 .. i of x - y - borrow, the borrow entering at limb i
RECURSIVE SubLimbs(_, _, _, _)
SubLimbs(x, y, i, borrow) ==
    IF i = 0 THEN << >>
    ELSE Append(SubLimbs(x, y, i - 1, IF x[i] - y[i] - borrow < 0 THEN 1 ELSE 0),
                (x[i] - y[i] - borrow + LimbBase) % LimbBase)

\* x - y for x >= y
SubMag(x, y) == SubLimbs(x, y, Len(x), 0)

LessMag(x, y) ==
    \E i \in 1 .. Len(x) : x[i] < y[i] /\ \A j \in 1 .. (i - 1) : x[j] = y[j]

\* the carry limb followed by limbs 1 .. i of m * d + carry, for d < LimbBase
RECURSIVE TimesLimbs(_, _, _, _)
TimesLimbs(m, d, i, carry) ==
    IF i = 0 THEN << carry >>
    ELSE Append(TimesLimbs(m, d, i - 1, (m[i] * d + carry) \div LimbBase),
                (m[i] * d + carry) % LimbBase)

\* m * d in Len(m) + 1 limbs
TimesLimb(m, d) == TimesLimbs(m, d, Len(m), 0)

\* x times the number held in limbs 1 .. j of y, in Len(x) + Len(y) limbs
RECURSIVE TimesMag(_, _, _)
TimesMag(x, y, j) ==
    IF j = 0 THEN Zeros(Len(x) + Len(y))
    ELSE AddMag(Tail(TimesMag(x, y, j - 1)) \o << 0 >>,
                Zeros(Len(y) - 1) \o TimesLimb(x, y[j]))

\* limbs i .. Len(num) of the quotient of num by the integer divisor, rem
\* being the remainder left by the limbs before i
RECURSIVE DivLimbs(_, _, _, _)
DivLimbs(num, divisor, i, rem) ==
    IF i > Len(num) THEN << >>
    ELSE << (rem * LimbBase + num[i]) \div divisor >>
             \o DivLimbs(num, divisor, i + 1, (rem * LimbBase + num[i]) % divisor)

\* the remainder left by that division
RECURSIVE RemLimbs(_, _, _, _)
RemLimbs(num, divisor, i, rem) ==
    IF i > Len(num) THEN rem
    ELSE RemLimbs(num, divisor, i + 1, (rem * LimbBase + num[i]) % divisor)

\* one digit of a long division: the largest d with den * d <= cur, found
\* from an estimate that is never too small (den has its top bit set)
RECURSIVE QuotientDigit(_, _, _)
QuotientDigit(cur, den, guess) ==
    IF LessMag(cur, TimesLimb(den, guess))
    THEN QuotientDigit(cur, den, guess - 1)
    ELSE guess

\* digits i .. Len(num) of the quotient of num by den, followed by 1 if a
\* remainder is left and by 0 if not; rem is the remainder of the limbs
\* before i
RECURSIVE LongDivide(_, _, _, _)
LongDivide(num, den, i, rem) ==
    IF i > Len(num) THEN << IF rem = Zeros(Len(den)) THEN 0 ELSE 1 >>
    ELSE LET cur == rem \o << num[i] >>
             guess == (cur[1] * LimbBase + cur[2]) \div den[1]
             digit == QuotientDigit(cur, den,
                          IF guess > LimbBase - 1 THEN LimbBase - 1 ELSE guess)
         IN  << digit >>
                \o LongDivide(num, den, i + 1,
                              Tail(SubMag(cur, TimesLimb(den, digit))))

\* the quotient of x by y in units of 2^-(FracLimbs * LimbBits), followed by
\* the remainder flag; both are first scaled so that the divisor's leading
\* limb has its top bit set
QuotientMag(x, y) ==
    LET scale == 2 ^ (LimbBits - BitLength(y[LeadingLimb(y)]))
        den == Tail(TimesLimb(SubSeq(y, LeadingLimb(y), Len(y)), scale))
        num == TimesLimb(x \o Zeros(FracLimbs), scale)
    IN  LongDivide(num, den, 1, Zeros(Len(den)))

\* the nearest magnitude of SignificandBits significant bits, a tie going to
\* the even one; sticky tells that the exact value lies above m
RoundToDouble(m, sticky) ==
    IF m = Zeros(Len(m)) THEN m
    ELSE LET s == TopBit(m) - (SignificandBits - 1)
         IN  IF s <= 0 THEN m
             ELSE IF /\ Bit(m, s - 1) = 1
                     /\ (sticky \/ AnyBitBelow(m, s - 1) \/ Bit(m, s) = 1)
                  THEN AddMag(ClearBelow(m, s), PowerOfTwo(s, Len(m)))
                  ELSE ClearBelow(m, s)

\* the integer |a| as a magnitude
MagOfInt(a) ==
    Zeros(IntLimbs - 2) \o << Abs(a) \div LimbBase, Abs(a) % LimbBase >> \o Zeros(FracLimbs)

\* the integer part of a magnitude
IntOfMag(m) == m[IntLimbs - 1] * LimbBase + m[IntLimbs]

Finite(neg, m) == [kind |-> "finite", neg |-> neg, m |-> m]

DoubleNaN == [kind |-> "NaN", neg |-> FALSE, m |-> ZeroMag]

DoubleInfinity(neg) == [kind |-> "Infinity", neg |-> neg, m |-> ZeroMag]

DoubleOfInt(a) == Finite(a < 0, MagOfInt(a))

IsZero(x) == x.kind = "finite" /\ x.m = ZeroMag

\* the double a / divisor, for an integer a and an integer divisor >= 0
DoubleQuotient(a, divisor) ==
    IF divisor = 0
    THEN (IF a = 0 THEN DoubleNaN ELSE DoubleInfinity(a < 0))
    ELSE LET mag == MagOfInt(a)
         IN  Finite(a < 0,
                    RoundToDouble(DivLimbs(mag, divisor, 1, 0),
                                  RemLimbs(mag, divisor, 1, 0) # 0))

\* a number of the extended rationals as a double
ToDouble(x) ==
    IF x.d = 0
    THEN (IF x.n = 0 THEN DoubleNaN ELSE DoubleInfinity(x.n < 0))
    ELSE IF x.d = 1 THEN DoubleOfInt(x.n)
    ELSE DoubleQuotient(x.n, x.d)

\* the double x + y
DoubleAdd(x, y) ==
    IF x.kind = "NaN" \/ y.kind = "NaN" THEN DoubleNaN
    ELSE IF x.kind = "Infinity"
         THEN (IF y.kind = "Infinity" /\ x.neg # y.neg THEN DoubleNaN ELSE x)
    ELSE IF y.kind = "Infinity" THEN y
    ELSE IF x.neg = y.neg
         THEN Finite(x.neg, RoundToDouble(AddMag(x.m, y.m), FALSE))
    ELSE IF x.m = y.m THEN Finite(FALSE, ZeroMag)
    ELSE IF LessMag(x.m, y.m)
         THEN Finite(y.neg, RoundToDouble(SubMag(y.m, x.m), FALSE))
         ELSE Finite(x.neg, RoundToDouble(SubMag(x.m, y.m), FALSE))

\* the double x * k, for an integer 0 <= k < LimbBase
DoubleTimes(x, k) ==
    IF x.kind = "NaN" THEN DoubleNaN
    ELSE IF x.kind = "Infinity" THEN (IF k = 0 THEN DoubleNaN ELSE x)
    ELSE Finite(x.neg, Tail(RoundToDouble(TimesLimb(x.m, k), FALSE)))

\* the double x * y
DoubleMul(x, y) ==
    IF x.kind = "NaN" \/ y.kind = "NaN" THEN DoubleNaN
    ELSE IF x.kind = "Infinity" \/ y.kind = "Infinity"
         THEN (IF IsZero(x) \/ IsZero(y) THEN DoubleNaN
               ELSE DoubleInfinity(x.neg # y.neg))
    ELSE Finite(x.neg # y.neg,
                SubSeq(RoundToDouble(TimesMag(x.m, y.m, LimbCount), FALSE),
                       IntLimbs + 1, IntLimbs + LimbCount))

\* the double x / y
DoubleDiv(x, y) ==
    IF x.kind = "NaN" \/ y.kind = "NaN" THEN DoubleNaN
    ELSE IF x.kind = "Infinity"
         THEN (IF y.kind = "Infinity" THEN DoubleNaN
               ELSE DoubleInfinity(x.neg # y.neg))
    ELSE IF y.kind = "Infinity" THEN Finite(x.neg # y.neg, ZeroMag)
    ELSE IF IsZero(y)
         THEN (IF IsZero(x) THEN DoubleNaN ELSE DoubleInfinity(x.neg # y.neg))
    ELSE IF IsZero(x) THEN Finite(x.neg # y.neg, ZeroMag)
    ELSE LET q == QuotientMag(x.m, y.m)
         IN  Finite(x.neg # y.neg,
                    RoundToDouble(SubSeq(q, Len(q) - LimbCount, Len(q) - 1),
                                  q[Len(q)] = 1))

\* Math.round of a double: floor(x + 0.5) computed exactly, -0 for a
\* negative x that rounds to zero
MathRound(x) ==
    IF x.kind # "finite" THEN x
    ELSE LET half == LimbBase \div 2
             atLeastHalf == x.m[IntLimbs + 1] >= half
             aboveHalf == \/ x.m[IntLimbs + 1] > half
                          \/ /\ x.m[IntLimbs + 1] = half
                             /\ \E i \in (IntLimbs + 2) .. LimbCount : x.m[i] # 0
         IN  IF x.neg
             THEN Finite(TRUE, MagOfInt(IntOfMag(x.m) + (IF aboveHalf THEN 1 ELSE 0)))
             ELSE Finite(FALSE, MagOfInt(IntOfMag(x.m) + (IF atLeastHalf THEN 1 ELSE 0)))

\* an integer-valued double (what Math.round returns), NaN or an infinity as
\* a number of the extended rationals
NumOfWhole(x) ==
    IF x.kind = "NaN" THEN NaN
    ELSE IF x.kind = "Infinity" THEN [n |-> IF x.neg THEN -1 ELSE 1, d |-> 0]
    ELSE Num(IF x.neg THEN -IntOfMag(x.m) ELSE IntOfMag(x.m))

(***************************************************************************)
(* Input domains.                                                          *)
(***************************************************************************)
PROMOTION == "PROMOTION"
DISTRIBUTED_ORDER_PROMOTION == "DISTRIBUTED_ORDER_PROMOTION"
OTHER_ADJUSTMENT == "OTHER"

AdjustmentType == {PROMOTION, DISTRIBUTED_ORDER_PROMOTION, OTHER_ADJUSTMENT}

\* the argument of a call made without a type
NoType == "undefined"

Adj(t, s, a, d) == [type |-> t, adjustmentSource |-> s, amount |-> a, description |-> d]

AdjustmentPool ==
    { Adj(PROMOTION, "P1", -200, "promo one"),
      Adj(PROMOTION, "P2", -2, "promo two"),
      Adj(DISTRIBUTED_ORDER_PROMOTION, "P2", -5, "order promo") }

ListPrices == {1000}

InitialListPrices == {1000}

TaxLine(desc, rate) == [description |-> desc, taxRate |-> rate]

TaxLinesPool ==
    { << >>,
      << TaxLine("state", 15), TaxLine("city", 5) >> }

Quantities == 0 .. MaxQuantity

\* a line may have been placed with more units than it has now
PlacedQuantities == {0, 2, 6}

NoAdjustment == Adj(NoType, "", 0, "")

NoOp == [op |-> "none", type |-> NoType, adjustment |-> NoAdjustment, from |-> 0]

(***************************************************************************)
(* State: the columns of the entity, and a record of the last call.        *)
(***************************************************************************)
VARIABLES
    quantity,
    orderPlacedQuantity,
    initialListPrice,
    listPrice,
    listPriceIncludesTax,
    adjustments,
    adjustmentsDefined,
    taxLines,
    lastOp,
    threw

vars == << quantity, orderPlacedQuantity, initialListPrice, listPrice,
           listPriceIncludesTax, adjustments, adjustmentsDefined, taxLines,
           lastOp, threw >>

\* the entity instance the getters below are read from ("this")
thisLine ==
    [ quantity |-> quantity,
      orderPlacedQuantity |-> orderPlacedQuantity,
      initialListPrice |-> initialListPrice,
      listPrice |-> listPrice,
      listPriceIncludesTax |-> listPriceIncludesTax,
      adjustments |-> adjustments,
      adjustmentsDefined |-> adjustmentsDefined,
      taxLines |-> taxLines ]

(***************************************************************************)
(* Helpers of common/tax-utils and shared-utils.                           *)
(***************************************************************************)
RECURSIVE summate(_)
summate(items) ==
    IF items = << >> THEN Num(0)
    ELSE Add(summate(SubSeq(items, 1, Len(items) - 1)),
             Num(items[Len(items)].taxRate))

\* 1 + rate / 100
TaxFactor(rate) == DoubleAdd(DoubleOfInt(1), DoubleDiv(ToDouble(rate), DoubleOfInt(100)))

\* m * num / den for integers num and den, cut off below the last limb
Scaled(m, num, den) == Tail(DivLimbs(TimesLimb(m, num), den, 1, 0))

\* within 2^-LimbBits of halfway between two integers
NearHalf(m) == m[IntLimbs + 1] \in {LimbBase \div 2 - 1, LimbBase \div 2}

\* Math.round(amount / (1 + rate / 100)).  At rate 0 the divisor is 1 and
\* the quotient is amount itself.  Otherwise the quotient in doubles is
\* within 2^-21 of the exact amount * 100 / (100 + rate); unless that lies
\* close to halfway between two integers it rounds as the double does, and
\* the doubles are worked out only where it lies close.
netPriceOf(amount, rate) ==
    LET scaled == Scaled(amount.m, 100, 100 + rate.n)
    IN  IF rate = Num(0) THEN MathRound(amount)
        ELSE IF /\ amount.kind = "finite"
                /\ rate.d = 1
                /\ rate.n >= 0
                /\ ~NearHalf(scaled)
        THEN MathRound(Finite(amount.neg, scaled))
        ELSE MathRound(DoubleDiv(amount, TaxFactor(rate)))

\* Math.round(amount * (1 + rate / 100)), worked out in the same way
grossPriceOf(amount, rate) ==
    LET scaled == Scaled(amount.m, 100 + rate.n, 100)
    IN  IF rate = Num(0) THEN MathRound(amount)
        ELSE IF /\ amount.kind = "finite"
                /\ rate.d = 1
                /\ rate.n >= 0
                /\ ~NearHalf(scaled)
        THEN MathRound(Finite(amount.neg, scaled))
        ELSE MathRound(DoubleMul(amount, TaxFactor(rate)))

(***************************************************************************)
(* Calculated getters, each a function of the instance it is read from.    *)
(***************************************************************************)
taxRate(this) == summate(this.taxLines)

unitPrice(this) ==
    IF this.listPriceIncludesTax
    THEN NumOfWhole(netPriceOf(DoubleOfInt(this.listPrice), taxRate(this)))
    ELSE Num(this.listPrice)

unitPriceWithTax(this) ==
    IF this.listPriceIncludesTax
    THEN Num(this.listPrice)
    ELSE NumOfWhole(grossPriceOf(DoubleOfInt(this.listPrice), taxRate(this)))

unitPriceChangeSinceAdded(this) ==
    LET initialPrice == IF this.listPriceIncludesTax
                        THEN NumOfWhole(netPriceOf(DoubleOfInt(this.initialListPrice),
                                                   taxRate(this)))
                        ELSE Num(this.initialListPrice)
    IN  Sub(unitPrice(this), initialPrice)

unitPriceWithTaxChangeSinceAdded(this) ==
    LET initialPriceWithTax == IF this.listPriceIncludesTax
                               THEN Num(this.initialListPrice)
                               ELSE NumOfWhole(grossPriceOf(DoubleOfInt(this.initialListPrice),
                                                            taxRate(this)))
    IN  Sub(unitPriceWithTax(this), initialPriceWithTax)

\* adjustments.filter(adjustment => (type ? adjustment.type === type : true))
FilterByType(adjs, type) ==
    SelectSeq(adjs, LAMBDA a : IF type # NoType THEN a.type = type ELSE TRUE)

RECURSIVE SumOfAmounts(_)
SumOfAmounts(adjs) ==
    IF adjs = << >> THEN 0
    ELSE SumOfAmounts(SubSeq(adjs, 1, Len(adjs) - 1)) + adjs[Len(adjs)].amount

\* the sum of the shares in exact arithmetic, for a divisor > 0: the shares
\* have one denominator
SumPerUnit(adjs, divisor) == Div(Num(SumOfAmounts(adjs)), Num(divisor))

\* .map(adjustment => adjustment.amount / Math.max(orderPlacedQuantity, quantity))
\* .reduce((total, a) => total + a, 0)
RECURSIVE DoubleSumPerUnit(_, _)
DoubleSumPerUnit(adjs, divisor) ==
    IF adjs = << >> THEN DoubleOfInt(0)
    ELSE DoubleAdd(DoubleSumPerUnit(SubSeq(adjs, 1, Len(adjs) - 1), divisor),
                   DoubleQuotient(adjs[Len(adjs)].amount, divisor))

\* Math.round(... .reduce(...)).  For amounts below 2^30 every share and
\* every partial sum in doubles is within 2^-22 of the exact one, and an
\* exact sum that is not halfway between two integers is at least
\* 1 / (2 * divisor) away from halfway: the double sum then rounds as the
\* exact sum does.  Where the exact sum is halfway, the doubles decide.
RoundedSumPerUnit(adjs, divisor) ==
    LET exact == SumPerUnit(adjs, divisor)
    IN  IF exact.d = 2
        THEN NumOfWhole(MathRound(DoubleSumPerUnit(adjs, divisor)))
        ELSE Round(exact)

\* variants of getAdjustmentsTotal with a plausible defect each
RECURSIVE SumPerUnitRounded(_, _)
SumPerUnitRounded(adjs, divisor) ==
    IF adjs = << >> THEN Num(0)
    ELSE Add(SumPerUnitRounded(SubSeq(adjs, 1, Len(adjs) - 1), divisor),
             Round(Div(Num(adjs[Len(adjs)].amount), Num(divisor))))

getAdjustmentsTotal_RoundEach(this, type) ==
    IF ~this.adjustmentsDefined \/ this.quantity = 0
    THEN Num(0)
    ELSE SumPerUnitRounded(FilterByType(this.adjustments, type),
                           Max(this.orderPlacedQuantity, this.quantity))

getAdjustmentsTotal_DivByQuantity(this, type) ==
    IF ~this.adjustmentsDefined \/ this.quantity = 0
    THEN Num(0)
    ELSE RoundedSumPerUnit(FilterByType(this.adjustments, type), this.quantity)

getAdjustmentsTotal_NoZeroGuard(this, type) ==
    IF ~this.adjustmentsDefined
    THEN Num(0)
    ELSE NumOfWhole(MathRound(
             DoubleSumPerUnit(FilterByType(this.adjustments, type),
                              Max(this.orderPlacedQuantity, this.quantity))))

getAdjustmentsTotal(this, type) ==
    IF ~this.adjustmentsDefined \/ this.quantity = 0
    THEN Num(0)
    ELSE RoundedSumPerUnit(FilterByType(this.adjustments, type),
                           Max(this.orderPlacedQuantity, this.quantity))

discountedUnitPrice(this) ==
    LET result == Add(Num(this.listPrice), getAdjustmentsTotal(this, PROMOTION))
    IN  IF this.listPriceIncludesTax
        THEN NumOfWhole(netPriceOf(ToDouble(result), taxRate(this)))
        ELSE result

discountedUnitPriceWithTax(this) ==
    LET result == Add(Num(this.listPrice), getAdjustmentsTotal(this, PROMOTION))
    IN  IF this.listPriceIncludesTax
        THEN result
        ELSE NumOfWhole(grossPriceOf(ToDouble(result), taxRate(this)))

proratedUnitPrice(this) ==
    LET result == Add(Num(this.listPrice), getAdjustmentsTotal(this, NoType))
    IN  IF this.listPriceIncludesTax
        THEN NumOfWhole(netPriceOf(ToDouble(result), taxRate(this)))
        ELSE result

proratedUnitPriceWithTax(this) ==
    LET result == Add(Num(this.listPrice), getAdjustmentsTotal(this, NoType))
    IN  IF this.listPriceIncludesTax
        THEN result
        ELSE NumOfWhole(grossPriceOf(ToDouble(result), taxRate(this)))

unitTax(this) == Sub(unitPriceWithTax(this), unitPrice(this))

proratedUnitTax(this) == Sub(proratedUnitPriceWithTax(this), proratedUnitPrice(this))

linePrice(this) == Mul(unitPrice(this), Num(this.quantity))

linePriceWithTax(this) == Mul(unitPriceWithTax(this), Num(this.quantity))

discountedLinePrice(this) == Mul(discountedUnitPrice(this), Num(this.quantity))

discountedLinePriceWithTax(this) == Mul(discountedUnitPriceWithTax(this), Num(this.quantity))

lineTax(this) == Mul(unitTax(this), Num(this.quantity))

proratedLinePrice(this) == Mul(proratedUnitPrice(this), Num(this.quantity))

proratedLinePriceWithTax(this) == Mul(proratedUnitPriceWithTax(this), Num(this.quantity))

proratedLineTax(this) == Mul(proratedUnitTax(this), Num(this.quantity))

(***************************************************************************)
(* The discounts getter.                                                   *)
(***************************************************************************)
unitAdjustmentAmount_Rounded(this, adjustment) ==
    MathRound(DoubleTimes(DoubleQuotient(adjustment.amount,
                                         Max(this.orderPlacedQuantity, this.quantity)),
                          this.quantity))

unitAdjustmentAmount_DivByQuantity(this, adjustment) ==
    DoubleTimes(DoubleQuotient(adjustment.amount, this.quantity), this.quantity)

\* (adjustment.amount / Math.max(orderPlacedQuantity, quantity)) * quantity
unitAdjustmentAmount(this, adjustment) ==
    DoubleTimes(DoubleQuotient(adjustment.amount,
                               Max(this.orderPlacedQuantity, this.quantity)),
                this.quantity)

\* amount and amountWithTax of one contribution
discountAmount(this, unitAmount) ==
    IF this.listPriceIncludesTax
    THEN netPriceOf(unitAmount, taxRate(this))
    ELSE unitAmount

discountAmountWithTax(this, unitAmount) ==
    IF this.listPriceIncludesTax
    THEN unitAmount
    ELSE grossPriceOf(unitAmount, taxRate(this))

\* index of the group keyed by source in the insertion-ordered map, 0 if none
GroupIndex(groups, source) ==
    IF \E i \in 1 .. Len(groups) : groups[i].adjustmentSource = source
    THEN CHOOSE i \in 1 .. Len(groups) : groups[i].adjustmentSource = source
    ELSE 0

groupDiscount_Overwrite(this, groupedDiscounts, adjustment) ==
    LET i == GroupIndex(groupedDiscounts, adjustment.adjustmentSource)
        unitAmount == unitAdjustmentAmount(this, adjustment)
        amount == discountAmount(this, unitAmount)
        amountWithTax == discountAmountWithTax(this, unitAmount)
    IN  IF i # 0
        THEN [groupedDiscounts EXCEPT
                 ![i].amount = amount,
                 ![i].amountWithTax = amountWithTax]
        ELSE Append(groupedDiscounts,
                    [adjustmentSource |-> adjustment.adjustmentSource,
                     type |-> adjustment.type,
                     description |-> adjustment.description,
                     amount |-> amount,
                     amountWithTax |-> amountWithTax])

\* one iteration of the loop over the adjustments
groupDiscount(this, groupedDiscounts, adjustment) ==
    LET i == GroupIndex(groupedDiscounts, adjustment.adjustmentSource)
        unitAmount == unitAdjustmentAmount(this, adjustment)
        amount == discountAmount(this, unitAmount)
        amountWithTax == discountAmountWithTax(this, unitAmount)
    IN  IF i # 0
        THEN [groupedDiscounts EXCEPT
                 ![i].amount = DoubleAdd(@, amount),
                 ![i].amountWithTax = DoubleAdd(@, amountWithTax)]
        ELSE Append(groupedDiscounts,
                    [adjustmentSource |-> adjustment.adjustmentSource,
                     type |-> adjustment.type,
                     description |-> adjustment.description,
                     amount |-> amount,
                     amountWithTax |-> amountWithTax])

RECURSIVE groupedDiscountsOf(_, _)
groupedDiscountsOf(this, adjs) ==
    IF adjs = << >> THEN << >>
    ELSE groupDiscount(this,
                       groupedDiscountsOf(this, SubSeq(adjs, 1, Len(adjs) - 1)),
                       adjs[Len(adjs)])

\* iterating an undefined adjustments field raises a TypeError
discountsThrows(this) == ~this.adjustmentsDefined

discounts(this) == groupedDiscountsOf(this, this.adjustments)

(***************************************************************************)
(* Mutators.                                                               *)
(***************************************************************************)
concatAdjustment_Dedup(adjs, adjustment) ==
    IF \E i \in 1 .. Len(adjs) : adjs[i] = adjustment
    THEN adjs
    ELSE Append(adjs, adjustment)

\* this.adjustments.concat(adjustment)
concatAdjustment(adjs, adjustment) == Append(adjs, adjustment)

clearedAdjustments_KeepsOthers(adjs, defined, type) ==
    IF type = NoType
    THEN SelectSeq(adjs, LAMBDA a : a.type # PROMOTION)
    ELSE IF defined THEN SelectSeq(adjs, LAMBDA a : a.type # type) ELSE << >>

clearedAdjustments_Inverted(adjs, defined, type) ==
    IF type = NoType
    THEN << >>
    ELSE IF defined THEN SelectSeq(adjs, LAMBDA a : a.type = type) ELSE << >>

\* the value clearAdjustments assigns to this.adjustments
clearedAdjustments(adjs, defined, type) ==
    IF type = NoType
    THEN << >>
    ELSE IF defined THEN SelectSeq(adjs, LAMBDA a : a.type # type) ELSE << >>

Init ==
    /\ quantity \in Quantities
    /\ orderPlacedQuantity \in PlacedQuantities
    /\ initialListPrice \in InitialListPrices
    /\ listPrice \in ListPrices
    /\ listPriceIncludesTax \in BOOLEAN
    /\ taxLines \in TaxLinesPool
    /\ adjustmentsDefined \in BOOLEAN
    /\ adjustments = << >>
    /\ lastOp = NoOp
    /\ threw = FALSE

addAdjustment(adjustment) ==
    /\ Len(adjustments) < MaxAdjustments
    /\ lastOp' = [op |-> "addAdjustment", type |-> NoType,
                  adjustment |-> adjustment, from |-> quantity]
    /\ IF adjustmentsDefined
       THEN /\ adjustments' = concatAdjustment(adjustments, adjustment)
            /\ threw' = FALSE
       ELSE /\ adjustments' = adjustments
            /\ threw' = TRUE
    /\ UNCHANGED << quantity, orderPlacedQuantity, initialListPrice, listPrice,
                    listPriceIncludesTax, adjustmentsDefined, taxLines >>

clearAdjustments(type) ==
    /\ lastOp' = [op |-> "clearAdjustments", type |-> type,
                  adjustment |-> NoAdjustment, from |-> quantity]
    /\ adjustments' = clearedAdjustments(adjustments, adjustmentsDefined, type)
    /\ adjustmentsDefined' = TRUE
    /\ threw' = FALSE
    /\ UNCHANGED << quantity, orderPlacedQuantity, initialListPrice, listPrice,
                    listPriceIncludesTax, taxLines >>

\* the order-modification collaborator assigns the quantity column
setQuantity(q) ==
    /\ quantity' = q
    /\ lastOp' = [op |-> "setQuantity", type |-> NoType,
                  adjustment |-> NoAdjustment, from |-> quantity]
    /\ threw' = FALSE
    /\ UNCHANGED << orderPlacedQuantity, initialListPrice, listPrice,
                    listPriceIncludesTax, adjustments, adjustmentsDefined,
                    taxLines >>

Next ==
    \/ \E a \in AdjustmentPool : addAdjustment(a)
    \/ \E t \in AdjustmentType \cup {NoType} : clearAdjustments(t)
    \/ \E q \in Quantities : setQuantity(q)

Spec == Init /\ [][Next]_vars

TypeOK ==
    /\ quantity \in Quantities
    /\ orderPlacedQuantity \in PlacedQuantities
    /\ Len(adjustments) <= MaxAdjustments
    /\ \A i \in 1 .. Len(adjustments) : adjustments[i] \in AdjustmentPool
    /\ adjustmentsDefined \in BOOLEAN
    /\ threw \in BOOLEAN

(***************************************************************************)
(* Vocabulary of the properties.                                           *)
(***************************************************************************)
AnyType == AdjustmentType \cup {NoType}

Divisor == Max(orderPlacedQuantity, quantity)

A_P1 == Adj(PROMOTION, "P1", -200, "promo one")

A_P2 == Adj(PROMOTION, "P2", -2, "promo two")

A_D2 == Adj(DISTRIBUTED_ORDER_PROMOTION, "P2", -5, "order promo")

\* the line as it was before the last setQuantity call
previousLine == [thisLine EXCEPT !.quantity = lastOp.from]

\* indices of the adjustments matching a type filter
Matching(type) ==
    {i \in 1 .. Len(adjustments) : type = NoType \/ adjustments[i].type = type}

\* indices of the adjustments of one source
OfSource(source) ==
    {i \in 1 .. Len(adjustments) : adjustments[i].adjustmentSource = source}

\* indices at which a source occurs for the first time
FirstSeen ==
    {i \in 1 .. Len(adjustments) :
        \A j \in 1 .. (i - 1) :
            adjustments[j].adjustmentSource # adjustments[i].adjustmentSource}

\* position of index i among the members of S
Rank(S, i) == Cardinality({j \in S : j <= i})

RECURSIVE AmountSum(_)
AmountSum(S) ==
    IF S = {} THEN 0
    ELSE LET i == CHOOSE j \in S : TRUE
         IN  adjustments[i].amount + AmountSum(S \ {i})

\* the largest member of a set of indices
Last(S) == CHOOSE i \in S : \A j \in S : j <= i

\* the share of adjustment i for the current quantity
Share(i) == DoubleTimes(DoubleQuotient(adjustments[i].amount, Divisor), quantity)

\* the share of adjustment i as a tax-exclusive / tax-inclusive pair
Contribution(i, rate) ==
    LET share == Share(i)
    IN  [amount |-> IF listPriceIncludesTax THEN netPriceOf(share, rate) ELSE share,
         amountWithTax |-> IF listPriceIncludesTax THEN share
                           ELSE grossPriceOf(share, rate)]

\* the contributions of the members of a non-empty S added up in the order
\* of the sequence
RECURSIVE ContributionSum(_, _)
ContributionSum(S, rate) ==
    LET i == Last(S)
        last == Contribution(i, rate)
        rest == ContributionSum(S \ {i}, rate)
    IN  IF S = {i} THEN last
        ELSE [amount |-> DoubleAdd(rest.amount, last.amount),
              amountWithTax |-> DoubleAdd(rest.amountWithTax, last.amountWithTax)]

RECURSIVE DiscountAmountSum(_)
DiscountAmountSum(ds) ==
    IF ds = << >> THEN DoubleOfInt(0)
    ELSE DoubleAdd(DiscountAmountSum(SubSeq(ds, 1, Len(ds) - 1)), ds[Len(ds)].amount)

\* a finite double without a fractional part
IsWhole(x) ==
    x.kind = "finite" /\ \A i \in (IntLimbs + 1) .. LimbCount : x.m[i] = 0

\* the double x is the integer i
IsInt(x, i) == IsWhole(x) /\ NumOfWhole(x) = Num(i)

\* the double x is within 2^-30 / d of the fraction n / d: d * x and n differ
\* by less than 2^-30
Near(x, n, d) ==
    LET dx == TimesLimb(x.m, d)
        nn == << 0 >> \o MagOfInt(n)
        diff == IF x.neg = (n < 0) \/ n = 0 \/ x.m = ZeroMag
                THEN (IF LessMag(dx, nn) THEN SubMag(nn, dx) ELSE SubMag(dx, nn))
                ELSE AddMag(dx, nn)
    IN  x.kind = "finite" /\ \A i \in 1 .. (Len(diff) - 3) : diff[i] = 0

FrameUnchanged ==
    UNCHANGED << quantity, orderPlacedQuantity, initialListPrice, listPrice,
                 listPriceIncludesTax, taxLines >>

(***************************************************************************)
(* Properties.                                                             *)
(***************************************************************************)

\* C1: for every type filter the adjustment total is an integer nearest to
\* the sum of the matching amounts divided by
\* max(orderPlacedQuantity, quantity): the sum is rounded once, not term by
\* term (where the sum lies halfway between two integers, either of them is
\* nearest); it is 0 when quantity = 0 or when there are no adjustments.
\* discountedUnitPrice is built from the PROMOTION total, proratedUnitPrice
\* from the total of all adjustments.
C1_AdjustmentsTotal ==
    LET price(result) ==
            IF listPriceIncludesTax
            THEN NumOfWhole(netPriceOf(ToDouble(result), taxRate(thisLine)))
            ELSE result
    IN  \A type \in AnyType :
            \E total \in {getAdjustmentsTotal(thisLine, type)} :
                /\ IF quantity = 0 \/ ~adjustmentsDefined \/ adjustments = << >>
                   THEN total = Num(0)
                   ELSE /\ IsInteger(total)
                        /\ 2 * Abs(AmountSum(Matching(type)) - total.n * Divisor)
                               <= Divisor
                /\ type = PROMOTION =>
                       discountedUnitPrice(thisLine) = price(Add(Num(listPrice), total))
                /\ type = NoType =>
                       proratedUnitPrice(thisLine) = price(Add(Num(listPrice), total))

\* -200/6 + -2/6 + -5/6 is -34.5 in exact arithmetic and just below it in
\* doubles; the terms rounded one by one would add up to -34
C1_Witness ==
    /\ adjustmentsDefined
    /\ adjustments = << A_P1, A_P2, A_D2 >>
    /\ orderPlacedQuantity = 6
    /\ quantity = 1
    /\ ~listPriceIncludesTax
    /\ getAdjustmentsTotal(thisLine, PROMOTION) = Num(-34)
    /\ getAdjustmentsTotal(thisLine, NoType) = Num(-35)
    /\ getAdjustmentsTotal(thisLine, DISTRIBUTED_ORDER_PROMOTION) = Num(-1)
    /\ discountedUnitPrice(thisLine) = Num(966)
    /\ proratedUnitPrice(thisLine) = Num(965)

\* C2: with orderPlacedQuantity = P > 0, changing the quantity within 1..P
\* leaves the per-unit adjustment totals and the discounted and prorated
\* unit prices unchanged, and the discounted and prorated line prices are the
\* unchanged unit figure times the new quantity; listPrice 1000 tax-exclusive
\* with a PROMOTION of -200, P = 2 and quantity 1 gives a per-unit effect of
\* -100 and a discountedLinePrice of 900.
C2_QuantityReduction ==
    /\ ( /\ lastOp.op = "setQuantity"
         /\ orderPlacedQuantity > 0
         /\ lastOp.from \in 1 .. orderPlacedQuantity
         /\ quantity \in 1 .. orderPlacedQuantity )
       => /\ \A type \in AnyType :
                getAdjustmentsTotal(thisLine, type) = getAdjustmentsTotal(previousLine, type)
          /\ discountedUnitPrice(thisLine) = discountedUnitPrice(previousLine)
          /\ discountedUnitPriceWithTax(thisLine) = discountedUnitPriceWithTax(previousLine)
          /\ proratedUnitPrice(thisLine) = proratedUnitPrice(previousLine)
          /\ proratedUnitPriceWithTax(thisLine) = proratedUnitPriceWithTax(previousLine)
          /\ discountedLinePrice(thisLine) =
                Mul(discountedUnitPrice(previousLine), Num(quantity))
          /\ proratedLinePrice(thisLine) =
                Mul(proratedUnitPrice(previousLine), Num(quantity))
    /\ ( /\ listPrice = 1000
         /\ ~listPriceIncludesTax
         /\ adjustmentsDefined
         /\ adjustments = << A_P1 >>
         /\ orderPlacedQuantity = 2
         /\ quantity = 1 )
       => /\ getAdjustmentsTotal(thisLine, PROMOTION) = Num(-100)
          /\ discountedLinePrice(thisLine) = Num(900)

C2_Witness ==
    /\ lastOp.op = "setQuantity"
    /\ lastOp.from = 2
    /\ quantity = 1
    /\ orderPlacedQuantity = 2
    /\ listPrice = 1000
    /\ ~listPriceIncludesTax
    /\ adjustmentsDefined
    /\ adjustments = << A_P1 >>
    /\ getAdjustmentsTotal(previousLine, PROMOTION) = Num(-100)
    /\ discountedLinePrice(previousLine) = Num(1800)
    /\ discountedLinePrice(thisLine) = Num(900)

\* C3: with an adjustments sequence present, every derived field, each
\* Discount's amount and amountWithTax included, is a finite number, also
\* when quantity = 0 and orderPlacedQuantity = 0 with adjustments non-empty.
C3_TotalFunction ==
    adjustmentsDefined =>
        LET this == thisLine
            ds == discounts(thisLine)
        IN  /\ \A x \in { unitPrice(this), unitPriceWithTax(this),
                          unitPriceChangeSinceAdded(this),
                          unitPriceWithTaxChangeSinceAdded(this),
                          discountedUnitPrice(this), discountedUnitPriceWithTax(this),
                          proratedUnitPrice(this), proratedUnitPriceWithTax(this),
                          unitTax(this), proratedUnitTax(this), taxRate(this),
                          linePrice(this), linePriceWithTax(this),
                          discountedLinePrice(this), discountedLinePriceWithTax(this),
                          lineTax(this), proratedLinePrice(this),
                          proratedLinePriceWithTax(this), proratedLineTax(this) } :
                  IsFinite(x)
            /\ ~discountsThrows(this)
            /\ \A k \in 1 .. Len(ds) :
                  ds[k].amount.kind = "finite" /\ ds[k].amountWithTax.kind = "finite"

\* C4: discounts holds one Discount per distinct adjustmentSource, in the
\* order of each source's first occurrence in adjustments, and its amount and
\* amountWithTax are the sums over all adjustments of that source of
\* (amount / max(orderPlacedQuantity, quantity)) * quantity converted to the
\* tax-exclusive / tax-inclusive pair.
C4_DiscountsGrouped ==
    adjustmentsDefined =>
        LET ds == discounts(thisLine)
            rate == taxRate(thisLine)
            first == FirstSeen
        IN  /\ Len(ds) = Cardinality(first)
            /\ \A i \in first :
                  LET g == ds[Rank(first, i)]
                      sum == ContributionSum(OfSource(adjustments[i].adjustmentSource),
                                             rate)
                  IN  /\ g.adjustmentSource = adjustments[i].adjustmentSource
                      /\ g.amount = sum.amount
                      /\ g.amountWithTax = sum.amountWithTax

C4_Witness ==
    /\ adjustmentsDefined
    /\ adjustments = << A_P2, A_P1, A_D2 >>
    /\ quantity = 2
    /\ orderPlacedQuantity = 2
    /\ ~listPriceIncludesTax
    /\ taxRate(thisLine) = Num(20)
    /\ Len(discounts(thisLine)) = 2
    /\ discounts(thisLine)[1].adjustmentSource = "P2"
    /\ discounts(thisLine)[1].type = PROMOTION
    /\ IsInt(discounts(thisLine)[1].amount, -7)
    /\ discounts(thisLine)[2].adjustmentSource = "P1"
    /\ IsInt(discounts(thisLine)[2].amount, -200)
    /\ IsInt(discounts(thisLine)[2].amountWithTax, -240)

\* C5: no contribution is rounded before it is summed into its group: in
\* tax-exclusive mode a group's amount, and in tax-inclusive mode a group's
\* amountWithTax, is the unrounded fraction (sum of the amounts of the
\* source) * quantity / max(orderPlacedQuantity, quantity), to the precision
\* of a double, and the other figure of the pair is the sum of the tax
\* conversions of the unrounded contributions.
C5_DiscountsUnrounded ==
    adjustmentsDefined =>
        LET ds == discounts(thisLine)
            rate == taxRate(thisLine)
        IN  \A k \in 1 .. Len(ds) :
                LET members == OfSource(ds[k].adjustmentSource)
                    unconverted == IF listPriceIncludesTax THEN ds[k].amountWithTax
                                   ELSE ds[k].amount
                    sum == ContributionSum(members, rate)
                IN  /\ IF Divisor = 0
                       THEN unconverted.kind = "NaN"
                       ELSE Near(unconverted, AmountSum(members) * quantity, Divisor)
                    /\ IF listPriceIncludesTax
                       THEN ds[k].amount = sum.amount
                       ELSE ds[k].amountWithTax = sum.amountWithTax

C5_Witness ==
    /\ adjustmentsDefined
    /\ adjustments = << A_P2, A_P2 >>
    /\ quantity = 2
    /\ orderPlacedQuantity = 6
    /\ ~listPriceIncludesTax
    /\ taxRate(thisLine) = Num(20)
    /\ Len(discounts(thisLine)) = 1
    /\ Near(discounts(thisLine)[1].amount, -4, 3)
    /\ ~IsWhole(discounts(thisLine)[1].amount)
    /\ IsInt(discounts(thisLine)[1].amountWithTax, -2)

\* C6: after clearAdjustments() without a type, whatever calls came before,
\* the line reads as one that never had adjustments: discounts is empty and
\* the discounted and prorated figures equal the undiscounted ones, per unit
\* and per line, with and without tax.
C6_ClearAllNeutral ==
    (lastOp.op = "clearAdjustments" /\ lastOp.type = NoType) =>
        LET this == thisLine
        IN  /\ ~threw
            /\ ~discountsThrows(this)
            /\ discounts(this) = << >>
            /\ \A type \in AnyType : getAdjustmentsTotal(this, type) = Num(0)
            /\ discountedUnitPrice(this) = unitPrice(this)
            /\ proratedUnitPrice(this) = unitPrice(this)
            /\ discountedUnitPriceWithTax(this) = unitPriceWithTax(this)
            /\ proratedUnitPriceWithTax(this) = unitPriceWithTax(this)
            /\ proratedUnitTax(this) = unitTax(this)
            /\ discountedLinePrice(this) = linePrice(this)
            /\ proratedLinePrice(this) = linePrice(this)
            /\ discountedLinePriceWithTax(this) = linePriceWithTax(this)
            /\ proratedLinePriceWithTax(this) = linePriceWithTax(this)
            /\ proratedLineTax(this) = lineTax(this)

C6_Witness ==
    /\ lastOp.op = "clearAdjustments"
    /\ lastOp.type = NoType
    /\ quantity = 2
    /\ listPriceIncludesTax
    /\ taxRate(thisLine) = Num(20)
    /\ discounts(thisLine) = << >>
    /\ proratedUnitPriceWithTax(thisLine) = Num(1000)
    /\ proratedUnitPrice(thisLine) = unitPrice(thisLine)

\* C7: clearAdjustments(T) leaves exactly the adjustments whose type is not
\* T, in their original relative order, does not fail on an empty or absent
\* sequence, and a second clearAdjustments(T) changes nothing.
C7_ClearTypeFilters ==
    [][ (lastOp'.op = "clearAdjustments" /\ lastOp'.type \in AdjustmentType)
        => LET T == lastOp'.type
               kept == {i \in 1 .. Len(adjustments) :
                           adjustmentsDefined /\ adjustments[i].type # T}
           IN  /\ ~threw'
               /\ adjustmentsDefined'
               /\ Len(adjustments') = Cardinality(kept)
               /\ \A i \in kept : adjustments'[Rank(kept, i)] = adjustments[i]
               /\ ( (lastOp.op = "clearAdjustments" /\ lastOp.type = T)
                    => adjustments' = adjustments ) ]_vars

C7_Witness ==
    /\ lastOp.op = "clearAdjustments"
    /\ lastOp.type = PROMOTION
    /\ adjustments = << A_D2, A_D2 >>

\* C8: whenever quantity = 0 the adjustment total is 0 for every type filter
\* and linePrice, linePriceWithTax, discountedLinePrice,
\* discountedLinePriceWithTax, proratedLinePrice, proratedLinePriceWithTax,
\* lineTax and proratedLineTax are all 0.
C8_ZeroQuantity ==
    quantity = 0 =>
        LET this == thisLine
        IN  /\ \A type \in AnyType : getAdjustmentsTotal(this, type) = Num(0)
            /\ linePrice(this) = Num(0)
            /\ linePriceWithTax(this) = Num(0)
            /\ discountedLinePrice(this) = Num(0)
            /\ discountedLinePriceWithTax(this) = Num(0)
            /\ proratedLinePrice(this) = Num(0)
            /\ proratedLinePriceWithTax(this) = Num(0)
            /\ lineTax(this) = Num(0)
            /\ proratedLineTax(this) = Num(0)

C8_Witness ==
    /\ quantity = 0
    /\ orderPlacedQuantity = 2
    /\ adjustmentsDefined
    /\ adjustments = << A_P1, A_D2 >>
    /\ listPriceIncludesTax
    /\ taxRate(thisLine) = Num(20)
    /\ proratedLinePrice(thisLine) = Num(0)

\* C9: addAdjustment(a) makes adjustments the previous sequence with a
\* appended, also when an identical record is already present, and
\* addAdjustment and clearAdjustments leave quantity, orderPlacedQuantity,
\* listPrice, initialListPrice, listPriceIncludesTax and taxLines unchanged.
C9_AddAppendsFrame ==
    [][ /\ (lastOp'.op = "addAdjustment" /\ adjustmentsDefined)
           => /\ ~threw'
              /\ Len(adjustments') = Len(adjustments) + 1
              /\ adjustments'[Len(adjustments')] = lastOp'.adjustment
              /\ SubSeq(adjustments', 1, Len(adjustments)) = adjustments
        /\ lastOp'.op \in {"addAdjustment", "clearAdjustments"} => FrameUnchanged ]_vars

C9_Witness ==
    /\ lastOp.op = "addAdjustment"
    /\ lastOp.adjustment = A_P1
    /\ ~threw
    /\ adjustments = << A_P1, A_D2, A_P1 >>

\* C10: on a tax-exclusive line with tax rate 0, a positive
\* max(orderPlacedQuantity, quantity) and every adjustment amount a multiple
\* of it, the amounts of the discounts add up to proratedLinePrice - linePrice.
C10_BreakdownAgrees ==
    ( /\ adjustmentsDefined
      /\ ~listPriceIncludesTax
      /\ taxRate(thisLine) = Num(0)
      /\ Divisor > 0
      /\ \A i \in 1 .. Len(adjustments) : adjustments[i].amount % Divisor = 0 )
    => /\ IsWhole(DiscountAmountSum(discounts(thisLine)))
       /\ NumOfWhole(DiscountAmountSum(discounts(thisLine))) =
             Sub(proratedLinePrice(thisLine), linePrice(thisLine))

C10_Witness ==
    /\ adjustmentsDefined
    /\ ~listPriceIncludesTax
    /\ taxRate(thisLine) = Num(0)
    /\ orderPlacedQuantity = 2
    /\ quantity = 1
    /\ adjustments = << A_P1, A_P2, A_P1 >>
    /\ lastOp.op = "addAdjustment"
    /\ Len(discounts(thisLine)) = 2
    /\ IsInt(DiscountAmountSum(discounts(thisLine)), -201)
    /\ proratedLinePrice(thisLine) = Num(799)

====
